---- MODULE Spec2Model ----
(***************************************************************************)
(* bangumi-arrange: renames episode files of a show directory to           *)
(* '<title> - S<season>E<episode><ext>' and moves them, guarded by a       *)
(* '.bangumi_arranged' marker and a --dry-run flag.                        *)
(*                                                                         *)
(* The model holds the file tree, the command line and the position of     *)
(* main() / process_show_directory() / create_and_move_files() in their    *)
(* loops.  File names are records that carry the text the program reads    *)
(* from them: the fields anitopy.parse reports, the suffixes pathlib       *)
(* reports and the 'Season N' text the regular expressions look for.       *)
(***************************************************************************)
EXTENDS Naturals, Sequences, FiniteSets

VARIABLES
    fs,               \* the file tree: a set of nodes [p, d, c]
    args,             \* the parsed command line [mode, path, dry_run]
    pc,               \* position of the run
    run,              \* 1 for the first run, 2 for the re-run with the same args
    shows,            \* main: entries of os.listdir(args.shows) still to visit
    show_path,        \* process_show_directory: its argument
    anime_title,      \* process_show_directory: anime_info['anime_title']
    has_season_subdirs, \* process_show_directory: line 118
    dirs,             \* process_show_directory: entries of the else-loop still to visit
    rename_episodes,  \* create_and_move_files: items of the dict still to move
    failed,           \* the item whose move raised, as a set (empty: none)
    fs0,              \* the tree before the first run
    fs1,              \* the tree the first run left
    fsCall,           \* the tree when process_show_directory was last entered
    trace             \* what the runs did: prints of line 81, makedirs, moves, markers

vars == <<fs, args, pc, run, shows, show_path, anime_title, has_season_subdirs,
          dirs, rename_episodes, failed, fs0, fs1, fsCall, trace>>

(***************************************************************************)
(* Bounds of the initial trees.                                            *)
(***************************************************************************)
\* the most nodes (directories, files, markers) an initial tree holds below the root
MaxNodes == 4

(***************************************************************************)
(* Names.  k is the kind of text, t its free text (release group, title),  *)
(* s the season digits written in it, e the episode digits written in it,  *)
(* x its suffixes as pathlib.Path(name).suffixes lists them.               *)
(***************************************************************************)
Nm(k, t, s, e, x) == [k |-> k, t |-> t, s |-> s, e |-> e, x |-> x]

\* '.bangumi_arranged'
MarkerName == Nm("marker", ".bangumi_arranged", <<>>, <<>>, <<>>)

\* the library directory given to --shows
RootName == Nm("plain", "lib", <<>>, <<>>, <<>>)

\* 'Season <digits>'
SeasonName(digits) == Nm("season", "Season", digits, <<>>, <<>>)

\* show directories: 'Show', 'Show Season 3', and a name anitopy finds no
\* title in
ShowNames ==
    { Nm("show", "Show", <<>>, <<>>, <<>>),
      Nm("show", "Show", <<3>>, <<>>, <<>>),
      Nm("show", "", <<>>, <<>>, <<>>) }

\* subdirectories of a show directory: 'Season 1' and 'Disc 01'
SubdirNames ==
    { SeasonName(<<1>>),
      Nm("ep", "Disc", <<>>, <<0, 1>>, <<>>) }

\* files: '[A] 01.mkv', '[B] S2 - 01.x264.mkv', '[A] 100.v2.sc.ass', '[A] 01-02.mp4',
\* '[A] 02.txt' and a regular file named 'Season 01'
FileNames ==
    { Nm("ep", "A", <<>>, <<0, 1>>, <<".mkv">>),
      Nm("ep", "B", <<2>>, <<0, 1>>, <<".x264", ".mkv">>),
      Nm("ep", "A", <<>>, <<1, 0, 0>>, <<".v2", ".sc", ".ass">>),
      Nm("alt", "A", <<>>, <<0, 1>>, <<".mp4">>),
      Nm("ep", "A", <<>>, <<0, 2>>, <<".txt">>),
      SeasonName(<<0, 1>>) }

(***************************************************************************)
(* Paths and the file tree.  A path is the sequence of its components; a   *)
(* node is [p: path, d: is a directory, c: content], the content of a file *)
(* being the path it had in the initial tree.                              *)
(***************************************************************************)
Root == <<RootName>>

Join(p, n) == Append(p, n)

Dirname(p) == SubSeq(p, 1, Len(p) - 1)

Basename(p) == p[Len(p)]

Paths(f) == {n.p : n \in f}

Exists(f, p) == p \in Paths(f)

IsDir(f, p) == \E n \in f : n.p = p /\ n.d

IsFile(f, p) == \E n \in f : n.p = p /\ ~n.d

ListDir(f, p) == {Basename(q) : q \in {r \in Paths(f) : Len(r) = Len(p) + 1 /\ Dirname(r) = p}}

DirNode(p) == [p |-> p, d |-> TRUE, c |-> <<>>]

FileNode(p, c) == [p |-> p, d |-> FALSE, c |-> c]

\* os.makedirs: the directory and every missing ancestor
Makedirs(f, p) ==
    f \cup {DirNode(SubSeq(p, 1, i)) : i \in {j \in 1..Len(p) : ~Exists(f, SubSeq(p, 1, j))}}

\* shutil.move of a regular file raises when the source is gone or the
\* directory of the destination is not a directory
ShutilMoveRaises(f, oldPath, newPath) ==
    ~IsFile(f, oldPath) \/ ~IsDir(f, Dirname(newPath))

\* shutil.move of a regular file: the destination, if a file is there, is replaced
ShutilMove(f, oldPath, newPath) ==
    IF oldPath = newPath THEN f
    ELSE LET src == CHOOSE n \in f : n.p = oldPath
         IN  {n \in f : n.p # oldPath /\ n.p # newPath} \cup {FileNode(newPath, src.c)}

(***************************************************************************)
(* Text and numbers.  A number written in a name is the sequence of its    *)
(* characters.                                                             *)
(***************************************************************************)
\* int(text) raises ValueError unless the text is a non-empty run of digits
IsIntText(text) == text # <<>> /\ \A i \in 1..Len(text) : text[i] \in 0..9

RECURSIVE IntOf(_)
\* int(text)
IntOf(text) ==
    IF text = <<>> THEN 0
    ELSE 10 * IntOf(SubSeq(text, 1, Len(text) - 1)) + text[Len(text)]

RECURSIVE Digits(_)
\* the decimal digits of n
Digits(n) == IF n < 10 THEN <<n>> ELSE Append(Digits(n \div 10), n % 10)

\* the field width of '{:02}'
Width == 2

\* '{:02}'.format(n): zero-padded to at least two characters
Fmt02(n) ==
    LET ds == Digits(n)
    IN  IF Len(ds) >= Width THEN ds ELSE [i \in 1..(Width - Len(ds)) |-> 0] \o ds

(***************************************************************************)
(* anitopy.parse, the external parser: the fields the program reads, each  *)
(* an option (<<>> when the key is absent, <<value>> when present).        *)
(***************************************************************************)
AnitopyParse(n) ==
    [ anime_title    |-> IF n.k \in {"show"} /\ n.t # "" THEN <<n.t>>
                         ELSE IF n.k = "canon" THEN <<n.t>> ELSE <<>>,
      anime_season   |-> IF n.k \in {"show", "season", "canon"} /\ n.s # <<>>
                         THEN <<n.s>> ELSE <<>>,
      season_number  |-> IF n.k \in {"ep", "alt"} /\ n.s # <<>>
                         THEN <<n.s>> ELSE <<>>,
      episode_number |-> IF n.k \in {"ep", "alt", "canon"} /\ n.e # <<>>
                         THEN <<n.e>> ELSE <<>>,
      episode_number_alt |-> IF n.k = "alt" THEN <<n.e>> ELSE <<>> ]

\* pathlib.Path(name).suffixes
Suffixes(n) == n.x

\* re.search(r'Season (\d+)', name): the digits captured, <<>> when no match
SeasonSearch(n) ==
    IF n.k = "season" \/ (n.k = "show" /\ n.s # <<>>) THEN <<n.s>> ELSE <<>>

\* re.match(r'Season \d+', name)
SeasonMatch(n) == n.k = "season"

(***************************************************************************)
(* The program's functions.                                                *)
(***************************************************************************)
DefaultSeason == 1

\* get_season_number_from_dir is applied to a whole path: the first match in
\* the path string is the first match of the first component that has one
get_season_number_from_dir(directory_name) ==
    LET hits == {i \in 1..Len(directory_name) : SeasonSearch(directory_name[i]) # <<>>}
    IN  IF hits = {} THEN <<>>
        ELSE LET first == CHOOSE i \in hits : \A j \in hits : i <= j
             IN  <<IntOf(SeasonSearch(directory_name[first])[1])>>

get_season_number(anime_path, anime_info) ==
    LET season_number == get_season_number_from_dir(anime_path)
    IN  IF season_number # <<>> THEN season_number[1]
        ELSE IF anime_info.anime_season # <<>> THEN IntOf(anime_info.anime_season[1])
        ELSE DefaultSeason

VideoExts == {".mkv", ".mp4", ".mka"}

SubtitleExts == {".ass", ".srt"}

\* lines 38-39: at most the last two suffixes
LastTwo(suffixes) ==
    IF Len(suffixes) > 2 THEN SubSeq(suffixes, Len(suffixes) - 1, Len(suffixes))
    ELSE suffixes

\* lines 49-54: the suffixes the new name ends with
NewExtAllSuffixes(suffixes) == LastTwo(suffixes)

NewExt(suffixes) ==
    LET two == LastTwo(suffixes)
    IN  IF two[Len(two)] \in VideoExts THEN <<two[Len(two)]>> ELSE two

\* '{} - S{:02}E{:02}{}'.format(anime_title, anime_season, anime_episode, ext)
NewEpName(title, season, episode, exts) ==
    Nm("canon", title, Fmt02(season), Fmt02(episode), exts)

\* 'Season {:02}'.format(anime_season)
SeasonDirName(season) == SeasonName(Fmt02(season))

\* One iteration of the loop of gather_episodes: "skip" (a continue),
\* "error" (the except clause) or "rename" with the target path.
GatherOne(anime_path, episode, title, default_season, season_subdirs) ==
    LET episode_info == AnitopyParse(episode)
        suffixes == Suffixes(episode)
        ext == suffixes[Len(suffixes)]
        anime_season == IF season_subdirs \/ episode_info.season_number = <<>>
                        THEN default_season
                        ELSE IntOf(episode_info.season_number[1])
        target_dir == IF season_subdirs THEN anime_path
                      ELSE Join(anime_path, SeasonDirName(anime_season))
    IN  IF episode_info.episode_number = <<>> \/ episode_info.episode_number_alt # <<>>
          THEN [r |-> "skip", new |-> <<>>]
        ELSE IF suffixes = <<>>
          THEN [r |-> "skip", new |-> <<>>]
        ELSE IF ~season_subdirs /\ episode_info.season_number # <<>>
                /\ ~IsIntText(episode_info.season_number[1])
          THEN [r |-> "error", new |-> <<>>]
        ELSE IF ext \notin VideoExts \cup SubtitleExts
          THEN [r |-> "skip", new |-> <<>>]
        ELSE IF ~IsIntText(episode_info.episode_number[1])
          THEN [r |-> "error", new |-> <<>>]
        ELSE [r |-> "rename",
              new |-> Join(target_dir,
                           NewEpName(title, anime_season,
                                     IntOf(episode_info.episode_number[1]),
                                     NewExt(suffixes)))]

\* gather_episodes: the dict, as the set of its items
gather_episodes(f, anime_path, title, default_season, season_subdirs) ==
    { [old |-> Join(anime_path, episode),
       new |-> GatherOne(anime_path, episode, title, default_season, season_subdirs).new] :
        episode \in { e \in ListDir(f, anime_path) :
                        GatherOne(anime_path, e, title, default_season, season_subdirs).r
                            = "rename" } }

\* check_arranged_marker
NeverArranged(f, path) == FALSE

check_arranged_marker(f, path) == Exists(f, Join(path, MarkerName))

\* create_arranged_marker
MarkerNode(path) == FileNode(Join(path, MarkerName), <<MarkerName>>)

MarkerEvenIfDryRun(f, path, dry_run) == f \cup {MarkerNode(path)}

MarkerNeverWritten(f, path, dry_run) == f

create_arranged_marker(f, path, dry_run) ==
    IF ~dry_run
    THEN {n \in f : n.p # Join(path, MarkerName)} \cup {MarkerNode(path)}
    ELSE f

\* line 117
files_in_show_path(f, path) == {n \in ListDir(f, path) : IsFile(f, Join(path, n))}

\* line 118
HasSeasonSubdirs(f, path) ==
    \E d \in ListDir(f, path) : IsDir(f, Join(path, d)) /\ SeasonMatch(d)

(***************************************************************************)
(* The initial trees: the library directory, show directories in it, their *)
(* subdirectories, files and markers, at most MaxNodes nodes in all.       *)
(* Files lie in show directories and their subdirectories.                 *)
(***************************************************************************)
ShowPaths == {Join(Root, n) : n \in ShowNames}

RECURSIVE SubsetsUpTo(_, _)
\* the subsets of S with at most k elements
SubsetsUpTo(S, k) ==
    IF k = 0 \/ S = {} THEN {{}}
    ELSE LET x == CHOOSE y \in S : TRUE
             without == SubsetsUpTo(S \ {x}, k)
             with == SubsetsUpTo(S \ {x}, k - 1)
         IN  without \cup {t \cup {x} : t \in with}

\* the directories below the root: show directories and their subdirectories
DirSets ==
    { D \in SubsetsUpTo(ShowPaths \cup {Join(q, n) : q \in ShowPaths, n \in SubdirNames},
                        MaxNodes) :
        \A q \in D : Len(q) = 3 => Dirname(q) \in D }

\* the files a tree with the directories D may hold: a marker in a show
\* directory, a file in a show directory or in a subdirectory
FileCandidates(D) ==
    {FileNode(Join(q, MarkerName), <<MarkerName>>) : q \in {r \in D : Len(r) = 2}}
    \cup {FileNode(Join(q, n), Join(q, n)) : q \in D, n \in FileNames}

InitTrees ==
    UNION { { {DirNode(Root)} \cup {DirNode(q) : q \in D} \cup F :
                F \in SubsetsUpTo(FileCandidates(D), MaxNodes - Cardinality(D)) } :
            D \in DirSets }

\* a path that is no directory
NoSuchDir == Join(Root, RootName)

\* the command lines: --show-dir with a show directory of the tree or a path
\* that is no directory, --shows with the library or a path that is no directory
ArgsSet(f) ==
    [mode : {"show_dir"}, path : {q \in ShowPaths : IsDir(f, q)} \cup {NoSuchDir},
     dry_run : BOOLEAN]
    \cup [mode : {"shows"}, path : {Root, NoSuchDir}, dry_run : BOOLEAN]

Init ==
    /\ fs \in InitTrees
    /\ args \in ArgsSet(fs)
    /\ pc = "main"
    /\ run = 1
    /\ shows = {}
    /\ show_path = <<>>
    /\ anime_title = ""
    /\ has_season_subdirs = FALSE
    /\ dirs = {}
    /\ rename_episodes = {}
    /\ failed = {}
    /\ fs0 = fs
    /\ fs1 = {}
    /\ fsCall = {}
    /\ trace = {}

(***************************************************************************)
(* The run.                                                                *)
(***************************************************************************)
\* where main() continues when process_show_directory returns
AfterShow(left) == IF args.mode = "shows" /\ left # {} THEN "shows" ELSE "done"

\* where process_show_directory continues: the loop of create_and_move_files,
\* the next subdirectory, or create_arranged_marker
Continue(items, left) ==
    IF items # {} THEN "moving" ELSE IF left # {} THEN "subdirs" ELSE "marker"

Event(op, old, new) == [op |-> op, old |-> old, new |-> new, show |-> show_path, run |-> run]

\* main(), lines 146-154; line 152 ends the run (sys is not imported, so it
\* ends with a NameError instead of the message)
Main ==
    /\ pc = "main"
    /\ IF args.mode = "show_dir"
       THEN /\ show_path' = args.path
            /\ shows' = {}
            /\ pc' = "process"
       ELSE IF ~IsDir(fs, args.path)
       THEN /\ pc' = "exit"
            /\ UNCHANGED <<show_path, shows>>
       ELSE /\ shows' = ListDir(fs, args.path)
            /\ pc' = IF shows' = {} THEN "done" ELSE "shows"
            /\ UNCHANGED show_path
    /\ UNCHANGED <<fs, args, run, anime_title, has_season_subdirs, dirs,
                   rename_episodes, failed, fs0, fs1, fsCall, trace>>

\* main(), lines 154-157: one iteration of the loop over os.listdir(args.shows)
NextShow ==
    /\ pc = "shows"
    /\ \E dir_name \in shows :
         /\ shows' = shows \ {dir_name}
         /\ IF IsDir(fs, Join(args.path, dir_name))
            THEN /\ show_path' = Join(args.path, dir_name)
                 /\ pc' = "process"
            ELSE /\ pc' = AfterShow(shows')
                 /\ UNCHANGED show_path
    /\ UNCHANGED <<fs, args, run, anime_title, has_season_subdirs, dirs,
                   rename_episodes, failed, fs0, fs1, fsCall, trace>>

\* process_show_directory, lines 97-134 up to the first create_and_move_files
ProcessShowDirectory ==
    /\ pc = "process"
    /\ fsCall' = fs
    /\ LET anime_info == AnitopyParse(Basename(show_path))
       IN  IF \/ check_arranged_marker(fs, show_path)
              \/ ~IsDir(fs, show_path)
              \/ anime_info.anime_title = <<>>
           THEN /\ pc' = AfterShow(shows)
                /\ UNCHANGED <<anime_title, has_season_subdirs, dirs, rename_episodes>>
           ELSE /\ anime_title' = anime_info.anime_title[1]
                /\ has_season_subdirs' = HasSeasonSubdirs(fs, show_path)
                /\ IF files_in_show_path(fs, show_path) # {}
                   THEN /\ rename_episodes' =
                              gather_episodes(fs, show_path, anime_title',
                                              get_season_number(show_path, anime_info),
                                              has_season_subdirs')
                        /\ dirs' = {}
                   ELSE /\ rename_episodes' = {}
                        /\ dirs' = ListDir(fs, show_path)
                /\ pc' = Continue(rename_episodes', dirs')
    /\ UNCHANGED <<fs, args, run, shows, show_path, failed, fs0, fs1, trace>>

\* process_show_directory, lines 127-134: one iteration of the loop over the
\* entries of the show directory
NextSubdir ==
    /\ pc = "subdirs"
    /\ \E directory \in dirs :
         LET anime_path == Join(show_path, directory)
             anime_info == AnitopyParse(Basename(show_path))
         IN  /\ dirs' = dirs \ {directory}
             /\ rename_episodes' =
                    IF ~IsDir(fs, anime_path) THEN {}
                    ELSE gather_episodes(fs, anime_path, anime_title,
                                         get_season_number(anime_path, anime_info),
                                         has_season_subdirs)
             /\ pc' = Continue(rename_episodes', dirs')
    /\ UNCHANGED <<fs, args, run, shows, show_path, anime_title, has_season_subdirs,
                   failed, fs0, fs1, fsCall, trace>>

\* lines 76-80: the tree after the target directory is created if missing
WithTargetDir(f, newPath, dry_run) ==
    IF ~Exists(f, Dirname(newPath)) /\ ~dry_run THEN Makedirs(f, Dirname(newPath)) ELSE f

\* lines 76-80: what that step adds to the trace
TargetDirEvents(f, newPath, dry_run) ==
    IF ~Exists(f, Dirname(newPath)) /\ ~dry_run
    THEN {Event("makedirs", <<>>, Dirname(newPath))} ELSE {}

\* create_and_move_files, lines 75-83: one iteration that returns
MoveFile ==
    /\ pc = "moving"
    /\ \E item \in rename_episodes :
         LET withDir == WithTargetDir(fs, item.new, args.dry_run)
         IN  /\ args.dry_run \/ ~ShutilMoveRaises(withDir, item.old, item.new)
             /\ fs' = IF args.dry_run THEN fs ELSE ShutilMove(withDir, item.old, item.new)
             /\ trace' = trace \cup TargetDirEvents(fs, item.new, args.dry_run)
                               \cup {Event("print_move", item.old, item.new)}
                               \cup IF args.dry_run THEN {}
                                    ELSE {Event("move", item.old, item.new)}
             /\ rename_episodes' = rename_episodes \ {item}
             /\ pc' = Continue(rename_episodes', dirs)
    /\ UNCHANGED <<args, run, shows, show_path, anime_title, has_season_subdirs,
                   dirs, failed, fs0, fs1, fsCall>>

\* create_and_move_files, lines 75-83: one iteration in which shutil.move
\* raises; nothing catches it, the run ends
MoveFileRaises ==
    /\ pc = "moving"
    /\ ~args.dry_run
    /\ \E item \in rename_episodes :
         LET withDir == WithTargetDir(fs, item.new, args.dry_run)
         IN  /\ ShutilMoveRaises(withDir, item.old, item.new)
             /\ fs' = withDir
             /\ trace' = trace \cup TargetDirEvents(fs, item.new, args.dry_run)
                               \cup {Event("print_move", item.old, item.new)}
             /\ failed' = {item}
             /\ pc' = "raised"
    /\ UNCHANGED <<args, run, shows, show_path, anime_title, has_season_subdirs,
                   dirs, rename_episodes, fs0, fs1, fsCall>>

\* process_show_directory, line 137, and the return to main()
CreateArrangedMarker ==
    /\ pc = "marker"
    /\ fs' = create_arranged_marker(fs, show_path, args.dry_run)
    /\ trace' = IF fs' # fs THEN trace \cup {Event("marker", <<>>, show_path)} ELSE trace
    /\ pc' = AfterShow(shows)
    /\ UNCHANGED <<args, run, shows, show_path, anime_title, has_season_subdirs,
                   dirs, rename_episodes, failed, fs0, fs1, fsCall>>

\* the tool is run again with the same arguments after a run that made
\* changes and ended without an exception
Rerun ==
    /\ pc = "done"
    /\ run = 1
    /\ ~args.dry_run
    /\ run' = 2
    /\ fs1' = fs
    /\ pc' = "main"
    /\ UNCHANGED <<fs, args, shows, show_path, anime_title, has_season_subdirs,
                   dirs, rename_episodes, failed, fs0, fsCall, trace>>

Next ==
    \/ Main
    \/ NextShow
    \/ ProcessShowDirectory
    \/ NextSubdir
    \/ MoveFile
    \/ MoveFileRaises
    \/ CreateArrangedMarker
    \/ Rerun

Spec == Init /\ [][Next]_vars

(***************************************************************************)
(* Vocabulary of the properties.                                           *)
(***************************************************************************)
\* q lies below p
Under(p, q) == Len(q) > Len(p) /\ SubSeq(q, 1, Len(p)) = p

Subtree(f, p) == {n \in f : Under(p, n.p)}

\* the contents of the files below p, the marker aside
Contents(f, p) == {n.c : n \in {m \in Subtree(f, p) : ~m.d /\ Basename(m.p) # MarkerName}}

\* the shutil.move calls that returned
Moves == {ev \in trace : ev.op = "move"}

\* the changes made to the tree
Changes == {ev \in trace : ev.op \in {"move", "makedirs", "marker"}}

\* supported extension, parsed episode number, no alternative episode number
Eligible(n) ==
    /\ Suffixes(n) # <<>>
    /\ Suffixes(n)[Len(Suffixes(n))] \in VideoExts \cup SubtitleExts
    /\ AnitopyParse(n).episode_number # <<>>
    /\ AnitopyParse(n).episode_number_alt = <<>>

\* the show directories a run is asked to process
AskedShows ==
    IF args.mode = "show_dir" THEN {args.path}
    ELSE {Join(args.path, n) : n \in ListDir(fs0, args.path)}

Terminated == pc \in {"done", "raised", "exit"}

(***************************************************************************)
(* C1.  With --dry-run the file tree stays exactly as it was, for          *)
(* --show-dir and for --shows: no directory is created, no file is moved   *)
(* or renamed, no marker is written.                                       *)
(***************************************************************************)
C1_DryRunChangesNothing == args.dry_run => fs = fs0 /\ Changes = {}

\* a dry run over a library ended after it announced a move into a
\* directory that does not exist
C1_Witness ==
    /\ args.dry_run
    /\ args.mode = "shows"
    /\ pc = "done"
    /\ \E ev \in trace : ev.op = "print_move" /\ ~Exists(fs, Dirname(ev.new))

(***************************************************************************)
(* C2.  A show directory that holds a marker when process_show_directory   *)
(* starts on it is left as it was by that call, dry run or not.            *)
(***************************************************************************)
C2_MarkedShowUntouched ==
    (pc \notin {"main", "process"} /\ Exists(fsCall, Join(show_path, MarkerName)))
        => Subtree(fs, show_path) = Subtree(fsCall, show_path)

\* the call returned on a marked show directory that holds an eligible file,
\* in a first run that is no dry run
C2_Witness ==
    /\ pc = "done"
    /\ run = 1
    /\ ~args.dry_run
    /\ Exists(fsCall, Join(show_path, MarkerName))
    /\ \E e \in ListDir(fs, show_path) : IsFile(fs, Join(show_path, e)) /\ Eligible(e)

(***************************************************************************)
(* C3.  Re-runs are idempotent: after a run that is no dry run and ended   *)
(* without an exception, a second run with the same arguments leaves the   *)
(* tree as the first run left it and moves, creates and renames nothing.   *)
(***************************************************************************)
C3_RerunIdempotent ==
    run = 2 => fs = fs1 /\ {ev \in Changes : ev.run = 2} = {}

\* the second run ended, after a first run that moved a file
C3_Witness ==
    /\ run = 2
    /\ pc = "done"
    /\ \E ev \in Moves : ev.run = 1

(***************************************************************************)
(* C4.  The target of every move.                                          *)
(***************************************************************************)
\* the title is the one parsed from the show directory's name, the episode
\* the one parsed from the source name
C4_TitleAndEpisode(ev) ==
    LET new == Basename(ev.new)
    IN  /\ new.k = "canon"
        /\ <<new.t>> = AnitopyParse(Basename(ev.show)).anime_title
        /\ IntOf(new.e) = IntOf(AnitopyParse(Basename(ev.old)).episode_number[1])

\* the extension: the last suffix of a video, the last two suffixes (or the
\* single one) of a subtitle
C4_Ext(ev) ==
    LET sx == Suffixes(Basename(ev.old))
        last == sx[Len(sx)]
    IN  /\ last \in VideoExts => Basename(ev.new).x = <<last>>
        /\ last \in SubtitleExts =>
               Basename(ev.new).x = IF Len(sx) >= 2 THEN <<sx[Len(sx) - 1], last>> ELSE sx

\* season and episode are written with exactly two digits
C4_TwoDigits(ev) == Len(Basename(ev.new).s) = 2 /\ Len(Basename(ev.new).e) = 2

\* season and episode are written zero-padded to at least two digits
C4_Padded(digits) == Len(digits) >= 2 /\ (Len(digits) > 2 => digits[1] # 0)

\* C4 as stated: every move has a target name '<title> - SnnEnn<ext>' with
\* two-digit season and episode, the title of the show directory, the
\* episode of the source and the extension rule; nothing ineligible is moved.
C4_TargetNameTwoDigits ==
    \A ev \in Moves :
        /\ Eligible(Basename(ev.old))
        /\ C4_TitleAndEpisode(ev)
        /\ C4_Ext(ev)
        /\ C4_TwoDigits(ev)

\* C4 as amended: the same, with season and episode zero-padded to at least
\* two digits (an episode 100 is written E100).
C4_TargetName ==
    \A ev \in Moves :
        /\ Eligible(Basename(ev.old))
        /\ C4_TitleAndEpisode(ev)
        /\ C4_Ext(ev)
        /\ C4_Padded(Basename(ev.new).s)
        /\ C4_Padded(Basename(ev.new).e)

\* a subtitle with three suffixes and episode 100 was moved, and so was a
\* video with two suffixes
C4_Witness ==
    /\ \E ev \in Moves : /\ Len(Suffixes(Basename(ev.old))) = 3
                         /\ Len(Basename(ev.new).e) = 3
    /\ \E ev \in Moves : /\ Len(Suffixes(Basename(ev.old))) = 2
                         /\ Basename(ev.new).x = <<".mkv">>

(***************************************************************************)
(* C5.  Every file moved lies directly inside a directory named            *)
(* 'Season NN', NN the two-digit season of the file's new name.            *)
(***************************************************************************)
C5_MovedIntoSeasonDir ==
    \A ev \in Moves :
        /\ Len(Basename(ev.new).s) = 2
        /\ Basename(Dirname(ev.new)) = SeasonName(Basename(ev.new).s)

(***************************************************************************)
(* C6.  A failure while handling one file is caught: every other planned   *)
(* file of the show directory and every remaining show directory is still  *)
(* processed in that run.                                                  *)
(***************************************************************************)
C6_FailureIsCaught ==
    Terminated => /\ rename_episodes \ failed = {}
                  /\ dirs = {}
                  /\ shows = {}

(***************************************************************************)
(* C7.  The marker is a completion marker of a run that is no dry run.     *)
(***************************************************************************)
\* the marker is written only after every move planned for the show
\* directory was executed
C7_MarkerAfterMoves ==
    /\ pc = "marker" => rename_episodes = {} /\ dirs = {}
    /\ \A m \in trace : m.op = "marker" =>
           \A e \in trace :
               (e.op = "print_move" /\ e.show = m.new /\ e.run = m.run)
                   => \E ev \in Moves : ev.old = e.old /\ ev.new = e.new /\ ev.run = e.run

\* the show directory whose moves an exception aborted, as a set
Aborted == IF pc = "raised" THEN {show_path} ELSE {}

\* it is written for every show directory that is a directory, has a parsed
\* title and had no marker (the one an exception aborted aside)
C7_MarkerForEveryShow ==
    (Terminated /\ ~args.dry_run /\ run = 1) =>
        \A p \in AskedShows \ Aborted :
            (/\ IsDir(fs0, p)
             /\ AnitopyParse(Basename(p)).anime_title # <<>>
             /\ ~Exists(fs0, Join(p, MarkerName)))
                => Exists(fs, Join(p, MarkerName))

\* a show directory whose moves were aborted by an exception has no marker
C7_NoMarkerAfterAbort ==
    pc = "raised" => ~Exists(fs, Join(show_path, MarkerName))

\* C7: the marker is written only after every planned move of the show
\* directory was executed, it is written for every show directory that is a
\* directory, has a parsed title and had no marker, and a show directory
\* whose moves an exception aborted has none
C7_CompletionMarker ==
    /\ C7_MarkerAfterMoves
    /\ C7_MarkerForEveryShow
    /\ C7_NoMarkerAfterAbort

\* the second part, for the runs no exception ends
C7_MarkerForEveryShowUnlessRaised == pc # "raised" => C7_MarkerForEveryShow

(***************************************************************************)
(* C8.  A file in an immediate subdirectory 'Season N' of the show         *)
(* directory gets season N in its new name.                                *)
(***************************************************************************)
C8_SeasonOfSubdir ==
    \A ev \in Moves :
        LET d == Dirname(ev.old)
        IN  (Dirname(d) = ev.show /\ Basename(d).k = "season")
                => IntOf(Basename(ev.new).s) = IntOf(Basename(d).s)

(***************************************************************************)
(* C9.  No file is lost: no two sources share a target, and the contents   *)
(* below each show directory are the same after the run as before.         *)
(***************************************************************************)
C9_NoFileLost ==
    /\ \A e1, e2 \in Moves :
           (e1.run = e2.run /\ e1.old # e2.old) => e1.new # e2.new
    /\ (pc = "done" /\ run = 1) =>
           \A p \in ShowPaths : Contents(fs, p) = Contents(fs0, p)

(***************************************************************************)
(* C10.  When a run writes the marker into a show directory, every         *)
(* eligible file directly in it or directly in one of its immediate        *)
(* subdirectories has been renamed by that run.                            *)
(***************************************************************************)
C10_MarkerMeansAllArranged ==
    \A m \in trace :
        (m.op = "marker" /\ m.run = 1) =>
            \A n \in fs0 :
                (/\ ~n.d
                 /\ Dirname(n.p) = m.new \/ Dirname(Dirname(n.p)) = m.new
                 /\ Eligible(Basename(n.p)))
                    => \E ev \in Moves : ev.old = n.p /\ ev.run = 1

====
